---- MODULE Spec2Model ----
(***************************************************************************)
(* A model of the LC-3 virtual machine of dsocolobsky/lc3-vm:              *)
(*   src/src/util.rs     sign extension, byte joining                      *)
(*   src/src/opcodes.rs  the instruction decoder (Opcode::try_from)        *)
(*   src/src/vm.rs       the machine: loader, run loop, execute, traps     *)
(*   src/src/memory.rs   the Memory abstraction (same loader loop)         *)
(*   src/src/main.rs     the VM embedded in the binary's entry file        *)
(*                                                                         *)
(* u16 values are integers 0..65535 and i16 values integers                *)
(* -32768..32767; every cast of the source is an operator here.  The       *)
(* 65536-cell memory array is kept as the finite function of its nonzero   *)
(* cells (a cell outside the domain holds 0).                              *)
(***************************************************************************)
EXTENDS Integers, Sequences, FiniteSets, TLC

----------------------------------------------------------------------------
(* Bounds of the exploration *)

\* words of payload in a program image given to VM::new
MaxImageWords == 2
\* setter calls (reg_set, set_pc, set_cond_flag) made on a fresh machine
\* before execute is called on it, as the unit tests of vm.rs do
MaxSetup == 2
\* bytes of console input that can be pending at once
MaxStdin == 2
\* instructions the run loop executes before exploration stops
MaxSteps == 3

----------------------------------------------------------------------------
(* Program constants *)

MEMORY_SIZE == 65536
REG_IDX_PC == 8
REG_IDX_COND == 9
PC_START_POS == 12288
REG_RET == 7
MR_KBSR == 65024
MR_KBDR == 65026

\* usize is wider than the model checker's integers; the cast of a negative
\* i16 to usize gives USIZE_RANGE - |x|.  Only that such a value is not below
\* MEMORY_SIZE and not equal to any 16-bit address matters to the machine.
USIZE_RANGE == 2 ^ 30

U16 == 0 .. 65535

----------------------------------------------------------------------------
(* Integer casts and bit operations of Rust *)

\* u16 as i16
AsI16(u) == IF u >= 32768 THEN u - 65536 ELSE u

\* i16 as u16, usize as u16 (truncation)
AsU16(i) == i % 65536

\* i16 as usize: sign extension to the full width
I16AsUsize(i) == IF i < 0 THEN USIZE_RANGE + i ELSE i

\* u16 as u8
AsU8(u) == u % 256

RECURSIVE BitAnd(_, _, _)
BitAnd(a, b, n) ==
    IF n = 0 \/ a = 0 \/ b = 0 THEN 0
    ELSE (a % 2) * (b % 2) + 2 * BitAnd(a \div 2, b \div 2, n - 1)

\* a & b on 16-bit patterns
And16(a, b) == BitAnd(a, b, 16)

\* !a on a 16-bit pattern
Not16(a) == 65535 - a

\* a | b on 16-bit patterns
Or16(a, b) == Not16(And16(Not16(a), Not16(b)))

\* a >> k
Shr(a, k) == a \div (2 ^ k)

\* u16::wrapping_add
WrappingAddU16(a, b) == (a + b) % 65536

\* i16::wrapping_add
WrappingAddI16(a, b) == AsI16((a + b) % 65536)

\* u16::wrapping_add_signed
WrappingAddSigned(a, off) == (a + off) % 65536

----------------------------------------------------------------------------
(* util.rs *)

base_r_with_offset(base_r, offset) ==
    I16AsUsize(WrappingAddI16(AsI16(AsU16(base_r)), offset))

join_u8(hi, lo) == Or16((hi * 256) % 65536, lo)

\* an extension that fills the bits above the field with zeros
SignExt_zero_fill(instruction, mask, signbit) ==
    AsI16(And16(instruction, mask))

\* the shared shape of sign_ext_imm5/6/9/11: mask the low bits, and when the
\* sign bit of the field is set OR in the complement of the mask
SignExt(instruction, mask, signbit) ==
    LET offset == AsI16(And16(instruction, mask))
    IN  IF And16(AsU16(offset), signbit) # 0
        THEN AsI16(Or16(AsU16(offset), Not16(mask)))
        ELSE AsI16(And16(AsU16(offset), mask))

sign_ext_imm6(instruction) == SignExt(instruction, 63, 32)

sign_ext_imm9(instruction) == SignExt(instruction, 511, 256)

sign_ext_imm5(instruction) == SignExt(instruction, 31, 16)

sign_ext_imm11(instruction) == SignExt(instruction, 2047, 1024)

----------------------------------------------------------------------------
(* opcodes.rs: Opcode::try_from.  The result is [res |-> "Ok", opcode |-> o], *)
(* [res |-> "Err"] for Err(()), or [res |-> "Panic"] for the panic!.          *)

Ok(o) == [res |-> "Ok", opcode |-> o]

Reg(r) == [kind |-> "Reg", v |-> r]

Immediate(i) == [kind |-> "Immediate", v |-> i]

\* the match on the low byte of a TRAP word; "Panic" is the panic! arm
trap_code_of(trap_code_hex) ==
    CASE trap_code_hex = 32 -> "Getc"
      [] trap_code_hex = 33 -> "Out"
      [] trap_code_hex = 34 -> "Puts"
      [] trap_code_hex = 35 -> "In"
      [] trap_code_hex = 36 -> "Putsp"
      [] trap_code_hex = 37 -> "Halt"
      [] OTHER -> "Panic"

\* the AND arm with the dr and sr1 fields exchanged
TryAND_dr_sr1_swapped(instruction) ==
    LET dr  == Shr(And16(instruction, 448), 6)
        sr1 == Shr(And16(instruction, 3584), 9)
    IN  IF And16(instruction, 32) = 0
        THEN Ok([op |-> "AND", dr |-> dr, sr1 |-> sr1,
                 sr2 |-> Reg(And16(instruction, 7))])
        ELSE Ok([op |-> "AND", dr |-> dr, sr1 |-> sr1,
                 sr2 |-> Immediate(sign_ext_imm5(instruction))])

\* the BR arm with the n and p bits exchanged
TryBR_n_p_swapped(instruction) ==
    Ok([op |-> "BR",
        n |-> And16(instruction, 512) # 0,
        z |-> And16(instruction, 1024) # 0,
        p |-> And16(instruction, 2048) # 0,
        offset |-> sign_ext_imm9(instruction)])

\* the JMP/RET arm that never yields RET
TryJMP_never_ret(instruction) ==
    Ok([op |-> "JMP", base_r |-> Shr(And16(instruction, 448), 6)])

\* the JSR/JSRR arm that takes the base register from bits 2..0
TryJSR_base_low_bits(instruction) ==
    IF And16(instruction, 2048) # 0
    THEN Ok([op |-> "JSR", offset |-> sign_ext_imm11(instruction)])
    ELSE Ok([op |-> "JSRR", base_r |-> And16(instruction, 7)])

\* 0b0001 => ADD
TryADD(instruction) ==
    LET dr  == Shr(And16(instruction, 3584), 9)
        sr1 == Shr(And16(instruction, 448), 6)
    IN  IF And16(instruction, 32) = 0
        THEN Ok([op |-> "ADD", dr |-> dr, sr1 |-> sr1,
                 sr2 |-> Reg(And16(instruction, 7))])
        ELSE Ok([op |-> "ADD", dr |-> dr, sr1 |-> sr1,
                 sr2 |-> Immediate(sign_ext_imm5(instruction))])

\* 0b0101 => AND
TryAND(instruction) ==
    LET dr  == Shr(And16(instruction, 3584), 9)
        sr1 == Shr(And16(instruction, 448), 6)
    IN  IF And16(instruction, 32) = 0
        THEN Ok([op |-> "AND", dr |-> dr, sr1 |-> sr1,
                 sr2 |-> Reg(And16(instruction, 7))])
        ELSE Ok([op |-> "AND", dr |-> dr, sr1 |-> sr1,
                 sr2 |-> Immediate(sign_ext_imm5(instruction))])

\* 0b0000 => BR
TryBR(instruction) ==
    Ok([op |-> "BR",
        n |-> And16(instruction, 2048) # 0,
        z |-> And16(instruction, 1024) # 0,
        p |-> And16(instruction, 512) # 0,
        offset |-> sign_ext_imm9(instruction)])

\* 0b1100 => JMP/RET
TryJMP(instruction) ==
    LET base_r == Shr(And16(instruction, 448), 6)
    IN  IF base_r = 7 THEN Ok([op |-> "RET"])
        ELSE Ok([op |-> "JMP", base_r |-> base_r])

\* 0b0100 => JSR/JSRR
TryJSR(instruction) ==
    IF And16(instruction, 2048) # 0
    THEN Ok([op |-> "JSR", offset |-> sign_ext_imm11(instruction)])
    ELSE Ok([op |-> "JSRR", base_r |-> Shr(And16(instruction, 448), 6)])

\* the LDR arm that extends a 9-bit offset field
TryLDR_offset9(instruction) ==
    Ok([op |-> "LDR",
        dr |-> Shr(And16(instruction, 3584), 9),
        base_r |-> Shr(And16(instruction, 448), 6),
        offset |-> sign_ext_imm9(instruction)])

\* 0b0110 => LDR
TryLDR(instruction) ==
    Ok([op |-> "LDR",
        dr |-> Shr(And16(instruction, 3584), 9),
        base_r |-> Shr(And16(instruction, 448), 6),
        offset |-> sign_ext_imm6(instruction)])

\* the TRAP arm that matches on the low 12 bits of the word
TryTRAP_code12(instruction) ==
    LET trap_code == trap_code_of(And16(instruction, 4095))
    IN  IF trap_code = "Panic" THEN [res |-> "Panic"]
        ELSE Ok([op |-> "TRAP", trap_code |-> trap_code])

\* 0b1111 => TRAP
TryTRAP(instruction) ==
    LET trap_code == trap_code_of(And16(instruction, 255))
    IN  IF trap_code = "Panic" THEN [res |-> "Panic"]
        ELSE Ok([op |-> "TRAP", trap_code |-> trap_code])

\* a decoder without an arm for 0b1101: the word falls to the `_` arm
TryRESERVED_unrecognized(instruction) == [res |-> "Err"]

\* 0b1101 => Ok(Opcode::RESERVED)
TryRESERVED(instruction) == Ok([op |-> "RESERVED"])

\* the NOT arm that takes dr from the four bits 12..9
TryNOT_dr_four_bits(instruction) ==
    Ok([op |-> "NOT",
        dr |-> Shr(And16(instruction, 7680), 9),
        sr |-> Shr(And16(instruction, 448), 6)])

\* 0b1001 => NOT
TryNOT(instruction) ==
    Ok([op |-> "NOT",
        dr |-> Shr(And16(instruction, 3584), 9),
        sr |-> Shr(And16(instruction, 448), 6)])

try_from(instruction) ==
    LET op  == Shr(instruction, 12)
        dr  == Shr(And16(instruction, 3584), 9)
        sr1 == Shr(And16(instruction, 448), 6)
    IN  CASE op = 1 -> TryADD(instruction)
          [] op = 5 -> TryAND(instruction)
          [] op = 0 -> TryBR(instruction)
          [] op = 12 -> TryJMP(instruction)
          [] op = 4 -> TryJSR(instruction)
          [] op = 2 ->
               Ok([op |-> "LD", dr |-> dr, offset |-> sign_ext_imm9(instruction)])
          [] op = 10 ->
               Ok([op |-> "LDI", dr |-> dr, offset |-> sign_ext_imm9(instruction)])
          [] op = 6 -> TryLDR(instruction)
          [] op = 14 ->
               Ok([op |-> "LEA", dr |-> dr, offset |-> sign_ext_imm9(instruction)])
          [] op = 9 -> TryNOT(instruction)
          [] op = 8 -> Ok([op |-> "RTI"])
          [] op = 3 ->
               Ok([op |-> "ST", sr |-> dr, offset |-> sign_ext_imm9(instruction)])
          [] op = 11 ->
               Ok([op |-> "STI", sr |-> dr, offset |-> sign_ext_imm9(instruction)])
          [] op = 7 ->
               Ok([op |-> "STR", sr |-> dr, base_r |-> sr1,
                   offset |-> sign_ext_imm6(instruction)])
          [] op = 15 -> TryTRAP(instruction)
          [] op = 13 -> TryRESERVED(instruction)
          [] OTHER -> [res |-> "Err"]

----------------------------------------------------------------------------
(* The machine.  A value of VMState is the struct VM of vm.rs together with  *)
(* the process's standard streams and how far a call has got:                *)
(*   running, registers, memory   the fields of struct VM                    *)
(*   stdin, stdin_eof             bytes pending on standard input, and       *)
(*                                whether end of input follows them          *)
(*   stdout_buf, console          bytes held by Rust's line-buffered stdout  *)
(*                                and bytes already written to the console   *)
(*   fault                        "none", or the panic that ended the process*)
(*   blocked                      a read found no byte and waits for one     *)
(* Every operation on a machine that has panicked or is blocked is skipped.  *)

Stopped(s) == s.fault # "none" \/ s.blocked

Panic(s, why) == IF Stopped(s) THEN s ELSE [s EXCEPT !.fault = why]

\* memory[a] of the zero-initialised array
Mem(memory, a) == IF a \in DOMAIN memory THEN memory[a] ELSE 0

\* the array with cell a set to v
MemWith(memory, a, v) ==
    IF v = 0
    THEN [x \in DOMAIN memory \ {a} |-> memory[x]]
    ELSE [x \in DOMAIN memory \cup {a} |-> IF x = a THEN v ELSE memory[x]]

reg(s, idx) == IF idx \in DOMAIN s.registers THEN s.registers[idx] ELSE 0

\* the panic of reg for an index outside the register array
reg_check(s, idx) ==
    IF Stopped(s) \/ idx \in DOMAIN s.registers THEN s
    ELSE Panic(s, "RegisterIndexOutOfBounds")

reg_set(s, idx, val) ==
    IF Stopped(s) THEN s
    ELSE IF idx \in DOMAIN s.registers
         THEN [s EXCEPT !.registers[idx] = val]
         ELSE Panic(s, "RegisterIndexOutOfBounds")

\* self.memory[dir] = val, an indexing that panics out of bounds
mem_store(s, dir, val) ==
    IF Stopped(s) THEN s
    ELSE IF dir \in 0 .. MEMORY_SIZE - 1
         THEN [s EXCEPT !.memory = MemWith(@, dir, val)]
         ELSE Panic(s, "IndexOutOfBounds")

pc(s) == reg(s, REG_IDX_PC)

fetch(s) == Mem(s.memory, pc(s))

cond_flag(s) ==
    LET r == reg(s, REG_IDX_COND)
    IN  IF r = 1 THEN "Pos"
        ELSE IF r = 2 THEN "Zero"
        ELSE IF r = 4 THEN "Neg"
        ELSE "None"

set_cond_flag(s, cond) ==
    LET flag == CASE cond = "Pos" -> 1
                  [] cond = "Zero" -> 2
                  [] cond = "Neg" -> 4
                  [] OTHER -> 0
    IN  reg_set(s, REG_IDX_COND, flag)

\* res is an i16
\* set_flags on the result taken as an unsigned word (the u16 is compared,
\* not its i16 cast): no result is ever negative
set_flags_unsigned(s, res) ==
    set_cond_flag(s, IF res = 0 THEN "Zero" ELSE "Pos")

set_flags(s, res) ==
    LET cond == IF res < 0 THEN "Neg"
                ELSE IF res = 0 THEN "Zero"
                ELSE "Pos"
    IN  set_cond_flag(s, cond)

set_pc(s, new_pc) ==
    IF new_pc \in U16 THEN reg_set(s, REG_IDX_PC, new_pc)
    ELSE Panic(s, "PcOutOfBounds")

pc_with_offset(s, offset) == WrappingAddSigned(pc(s), offset)

\* advance_pc stepping over two words instead of one
advance_pc_by_two(s) == set_pc(s, pc_with_offset(s, 2))

advance_pc(s) == set_pc(s, pc_with_offset(s, 1))

\* one byte from standard input: [s |-> the machine after, v |-> the byte].
\* With nothing pending the read fails at end of input (the caller unwraps the
\* failure) and otherwise waits.
read_stdin(s) ==
    IF Stopped(s) THEN [s |-> s, v |-> 0]
    ELSE IF s.stdin # << >>
         THEN [s |-> [s EXCEPT !.stdin = Tail(@)], v |-> Head(s.stdin)]
         ELSE IF s.stdin_eof
              THEN [s |-> Panic(s, "StdinUnwrap"), v |-> 0]
              ELSE [s |-> [s EXCEPT !.blocked = TRUE], v |-> 0]

handle_keyboard(s) ==
    LET r == read_stdin(s)
    IN  IF Stopped(r.s) THEN r.s
        ELSE IF r.v # 0
             THEN mem_store(mem_store(r.s, MR_KBSR, 32768), MR_KBDR, r.v)
             ELSE mem_store(r.s, MR_KBSR, 0)

\* a read that polls the keyboard at every address
read_polls_everywhere(s, position) ==
    LET s1 == handle_keyboard(s)
    IN  IF position \in 0 .. MEMORY_SIZE - 1
        THEN [s |-> s1, v |-> Mem(s1.memory, position)]
        ELSE [s |-> Panic(s1, "MemReadOutOfBounds"), v |-> 0]

\* [s |-> the machine after, v |-> the word read]
read(s, position) ==
    LET s1 == IF position = MR_KBSR THEN handle_keyboard(s) ELSE s
    IN  IF position \in 0 .. MEMORY_SIZE - 1
        THEN [s |-> s1, v |-> Mem(s1.memory, position)]
        ELSE [s |-> Panic(s1, "MemReadOutOfBounds"), v |-> 0]

read_with_offset(s, offset) == read(s, pc_with_offset(s, offset))

----------------------------------------------------------------------------
(* Standard output.  print! formats a char, which writes its UTF-8 encoding  *)
(* into the line-buffered stdout; a write that contains a newline sends      *)
(* everything up to the last newline to the console; flush sends the rest.   *)

\* the UTF-8 encoding of (ch as char) for a byte ch
Utf8(ch) ==
    IF ch < 128 THEN << ch >>
    ELSE << 192 + (ch \div 64), 128 + (ch % 64) >>

LastNewline(bytes) ==
    LET at == {i \in 1 .. Len(bytes) : bytes[i] = 10}
    IN  IF at = {} THEN 0 ELSE CHOOSE i \in at : \A j \in at : j <= i

print(s, bytes) ==
    IF Stopped(s) THEN s
    ELSE LET all == s.stdout_buf \o bytes
             k   == LastNewline(bytes)
             cut == Len(s.stdout_buf) + k
         IN  IF k = 0 THEN [s EXCEPT !.stdout_buf = all]
             ELSE [s EXCEPT !.console = @ \o SubSeq(all, 1, cut),
                            !.stdout_buf = SubSeq(all, cut + 1, Len(all))]

flush(s) ==
    IF Stopped(s) THEN s
    ELSE [s EXCEPT !.console = @ \o s.stdout_buf, !.stdout_buf = << >>]

\* "Enter a character: " and the newline of println!
InPrompt ==
    << 69, 110, 116, 101, 114, 32, 97, 32, 99, 104, 97, 114, 97, 99, 116,
       101, 114, 58, 32, 10 >>

----------------------------------------------------------------------------
(* vm.rs: the loader *)

\* data[i] of a Rust slice (indices from 0)
At(data, i) == data[i + 1]

RECURSIVE load_loop(_, _, _, _)
load_loop(s, data, mem_i, data_i) ==
    IF Stopped(s) THEN s
    ELSE IF mem_i < MEMORY_SIZE - 1 /\ data_i < Len(data)
         THEN IF data_i + 1 >= Len(data)
              THEN Panic(s, "IndexOutOfBounds")
              ELSE load_loop(
                     mem_store(s, mem_i,
                               join_u8(At(data, data_i), At(data, data_i + 1))),
                     data, mem_i + 1, data_i + 2)
         ELSE s

read_data_into_memory(s, data) ==
    IF Len(data) < 2 THEN Panic(s, "IndexOutOfBounds")
    ELSE LET origin == join_u8(At(data, 0), At(data, 1))
         IN  load_loop(s, data, origin, 2)

\* the struct literal of VM::new, and the streams of a process that has
\* written nothing yet
Fresh(stdin, stdin_eof) ==
    [running |-> FALSE,
     registers |-> [i \in 0 .. 9 |-> 0],
     memory |-> << >>,
     stdin |-> stdin, stdin_eof |-> stdin_eof,
     stdout_buf |-> << >>, console |-> << >>,
     fault |-> "none", blocked |-> FALSE]

new(s, data) ==
    set_cond_flag(set_pc(read_data_into_memory(s, data), PC_START_POS), "None")

----------------------------------------------------------------------------
(* vm.rs: the trap dispatcher *)

RECURSIVE puts_loop(_, _)
puts_loop(s, i) ==
    IF Stopped(s) THEN s
    ELSE IF i >= MEMORY_SIZE THEN Panic(s, "IndexOutOfBounds")
    ELSE IF Mem(s.memory, i) = 0 THEN s
    ELSE puts_loop(print(s, Utf8(AsU8(Mem(s.memory, i)))), i + 1)

RECURSIVE putsp_loop(_, _)
putsp_loop(s, i) ==
    IF Stopped(s) THEN s
    ELSE IF i >= MEMORY_SIZE THEN Panic(s, "IndexOutOfBounds")
    ELSE IF Mem(s.memory, i) = 0 THEN s
    ELSE LET ch  == Mem(s.memory, i)
             ch1 == And16(ch, 255)
             ch2 == Shr(ch, 8)
             s1  == print(s, Utf8(AsU8(ch1)))
             s2  == IF ch2 # 0 THEN print(s1, Utf8(AsU8(ch2))) ELSE s1
         IN  putsp_loop(s2, i + 1)

\* Getc with the byte looked at but left on standard input
TrapGetc_peek(s) ==
    LET r  == read_stdin(s)
        s1 == reg_set([r.s EXCEPT !.stdin = s.stdin], 0, r.v)
    IN  set_flags(s1, AsI16(reg(s1, 0)))

TrapGetc(s) ==
    LET r  == read_stdin(s)
        s1 == reg_set(r.s, 0, r.v)
    IN  set_flags(s1, AsI16(reg(s1, 0)))

TrapOut(s) == flush(print(s, Utf8(AsU8(reg(s, 0)))))

TrapPuts(s) == flush(puts_loop(s, reg(s, 0)))

TrapIn(s) ==
    LET r  == read_stdin(flush(print(s, InPrompt)))
        s1 == reg_set(r.s, 0, r.v)
    IN  set_flags(s1, AsI16(reg(s1, 0)))

\* Putsp that leaves the condition flag unset
TrapPutsp_clears_flag(s) == set_cond_flag(putsp_loop(s, reg(s, 0)), "None")

TrapPutsp(s) == putsp_loop(s, reg(s, 0))

\* Halt that leaves the machine running
TrapHalt_still_running(s) == s

TrapHalt(s) == IF Stopped(s) THEN s ELSE [s EXCEPT !.running = FALSE]

handle_trap_code(s, trap_code) ==
    CASE trap_code = "Getc"  -> TrapGetc(s)
      [] trap_code = "Out"   -> TrapOut(s)
      [] trap_code = "Puts"  -> TrapPuts(s)
      [] trap_code = "In"    -> TrapIn(s)
      [] trap_code = "Putsp" -> TrapPutsp(s)
      [] trap_code = "Halt"  -> TrapHalt(s)

----------------------------------------------------------------------------
(* vm.rs: execute *)

\* the arms that write res to dr and set the flags from it
WriteResult(s, dr, res) == set_flags(reg_set(s, dr, res), AsI16(res))

ExecADD(s, o) ==
    IF o.sr2.kind = "Reg"
    THEN LET s1  == reg_check(reg_check(s, o.sr1), o.sr2.v)
             res == WrappingAddU16(reg(s, o.sr1), reg(s, o.sr2.v))
         IN  WriteResult(s1, o.dr, res)
    ELSE LET s1  == reg_check(s, o.sr1)
             res == WrappingAddU16(reg(s, o.sr1), AsU16(o.sr2.v))
         IN  WriteResult(s1, o.dr, res)

\* AND whose immediate form uses only the five bits of the immediate field
ExecAND_imm5_bits(s, o) ==
    IF o.sr2.kind = "Reg"
    THEN LET s1  == reg_check(reg_check(s, o.sr1), o.sr2.v)
             res == And16(reg(s, o.sr1), reg(s, o.sr2.v))
         IN  WriteResult(s1, o.dr, res)
    ELSE LET s1  == reg_check(s, o.sr1)
             res == And16(reg(s, o.sr1), o.sr2.v % 32)
         IN  WriteResult(s1, o.dr, res)

ExecAND(s, o) ==
    IF o.sr2.kind = "Reg"
    THEN LET s1  == reg_check(reg_check(s, o.sr1), o.sr2.v)
             res == And16(reg(s, o.sr1), reg(s, o.sr2.v))
         IN  WriteResult(s1, o.dr, res)
    ELSE LET s1  == reg_check(s, o.sr1)
             res == AsU16(AsI16(And16(reg(s, o.sr1), AsU16(o.sr2.v))))
         IN  WriteResult(s1, o.dr, res)

\* the match of BR on ((n, z, p), actual_flag)
\* the BR test with the n and p bits exchanged
BrTaken_swapped(o, actual_flag) ==
    \/ o.n /\ actual_flag = "Pos"
    \/ o.z /\ actual_flag = "Zero"
    \/ o.p /\ actual_flag = "Neg"

BrTaken(o, actual_flag) ==
    \/ o.n /\ actual_flag = "Neg"
    \/ o.z /\ actual_flag = "Zero"
    \/ o.p /\ actual_flag = "Pos"

ExecBR(s, o) ==
    IF BrTaken(o, cond_flag(s)) THEN set_pc(s, pc_with_offset(s, o.offset))
    ELSE s

\* JSR as the revision in main.rs executes it: the jump without the link
ExecJSR_no_link(s, o) == set_pc(s, pc_with_offset(s, o.offset))

ExecJSR(s, o) ==
    LET s1  == reg_set(s, REG_RET, pc(s))
        dir == pc_with_offset(s1, o.offset)
    IN  set_pc(s1, dir)

ExecJSRR(s, o) ==
    LET s1 == reg_check(reg_set(s, REG_RET, pc(s)), o.base_r)
    IN  set_pc(s1, reg(s1, o.base_r))

ExecLD(s, o) ==
    LET r == read_with_offset(s, o.offset)
    IN  WriteResult(r.s, o.dr, r.v)

\* LDI that loads the pointer instead of the cell it points at
ExecLDI_direct(s, o) == ExecLD(s, o)

ExecLDI(s, o) ==
    LET r1 == read_with_offset(s, o.offset)
        r2 == read(r1.s, r1.v)
    IN  WriteResult(r2.s, o.dr, r2.v)

\* (base_r_dir as i16).wrapping_add(offset) as usize
BaseDir(s, o) == I16AsUsize(WrappingAddI16(AsI16(reg(s, o.base_r)), o.offset))

ExecLDR(s, o) ==
    LET s1 == reg_check(s, o.base_r)
        r  == read(s1, BaseDir(s, o))
    IN  WriteResult(r.s, o.dr, r.v)

\* LEA that loads the cell at the address instead of the address
ExecLEA_loads(s, o) == ExecLD(s, o)

ExecLEA(s, o) ==
    LET dir == AsU16(pc_with_offset(s, o.offset))
    IN  WriteResult(s, o.dr, dir)

ExecNOT(s, o) ==
    WriteResult(reg_check(s, o.sr), o.dr, Not16(reg(s, o.sr)))

\* ST that also sets the flags from the value stored
ExecST_flags(s, o) ==
    LET dir == pc_with_offset(s, o.offset)
    IN  set_flags(mem_store(reg_check(s, o.sr), dir, reg(s, o.sr)), AsI16(reg(s, o.sr)))

ExecST(s, o) ==
    LET dir == pc_with_offset(s, o.offset)
    IN  mem_store(reg_check(s, o.sr), dir, reg(s, o.sr))

ExecSTI(s, o) ==
    LET r == read_with_offset(s, o.offset)
    IN  mem_store(reg_check(r.s, o.sr), r.v, reg(r.s, o.sr))

ExecSTR(s, o) ==
    LET s1 == reg_check(reg_check(s, o.base_r), o.sr)
    IN  mem_store(s1, BaseDir(s, o), reg(s, o.sr))

\* TRAP dispatching without saving the PC in register 7
ExecTRAP_no_link(s, o) == handle_trap_code(s, o.trap_code)

ExecTRAP(s, o) ==
    handle_trap_code(reg_set(s, REG_RET, pc(s)), o.trap_code)

\* RTI that returns through register 6, the stack pointer of the LC-3
ExecRTI_pops_pc(s, o) == set_pc(s, reg(s, 6))

\* Opcode::RTI => eprintln! and dbg! only
ExecRTI(s, o) == s

execute(s, o) ==
    CASE o.op = "ADD"  -> ExecADD(s, o)
      [] o.op = "AND"  -> ExecAND(s, o)
      [] o.op = "BR"   -> ExecBR(s, o)
      [] o.op = "JMP"  -> set_pc(reg_check(s, o.base_r), reg(s, o.base_r))
      [] o.op = "RET"  -> set_pc(s, reg(s, REG_RET))
      [] o.op = "JSR"  -> ExecJSR(s, o)
      [] o.op = "JSRR" -> ExecJSRR(s, o)
      [] o.op = "LD"   -> ExecLD(s, o)
      [] o.op = "LDI"  -> ExecLDI(s, o)
      [] o.op = "LDR"  -> ExecLDR(s, o)
      [] o.op = "LEA"  -> ExecLEA(s, o)
      [] o.op = "NOT"  -> ExecNOT(s, o)
      [] o.op = "RTI"  -> ExecRTI(s, o)
      [] o.op = "ST"   -> ExecST(s, o)
      [] o.op = "STI"  -> ExecSTI(s, o)
      [] o.op = "STR"  -> ExecSTR(s, o)
      [] o.op = "TRAP" -> ExecTRAP(s, o)
      [] o.op = "RESERVED" -> Panic(s, "ReservedInstruction")

----------------------------------------------------------------------------
(* main.rs: the VM defined beside fn main.  Its loader, fetch, cond_flag,    *)
(* set_cond_flag and set_flags are the code of vm.rs; what differs is below. *)
(* checks is the build's overflow-checks setting.  Its println! diagnostics  *)
(* are not modelled; Terminal::out writes one raw byte to stdout.            *)

\* a + b on u16 with the + operator
AddU16(s, a, b, checks) ==
    IF a + b > 65535 /\ checks THEN [s |-> Panic(s, "AddOverflow"), v |-> 0]
    ELSE [s |-> s, v |-> (a + b) % 65536]

main_set_pc(s, new_pc) == reg_set(s, REG_IDX_PC, AsU16(new_pc))

main_advance_pc(s, checks) ==
    LET r == AddU16(s, pc(s), 1, checks)
    IN  reg_set(r.s, REG_IDX_PC, r.v)

main_pc_with_offset(s, offset) ==
    I16AsUsize(WrappingAddI16(AsI16(pc(s)), offset))

main_read(s, position) ==
    IF position \in 0 .. MEMORY_SIZE - 1
    THEN [s |-> s, v |-> Mem(s.memory, position)]
    ELSE [s |-> Panic(s, "OutOfBoundsRead"), v |-> 0]

main_read_with_offset(s, offset) == main_read(s, main_pc_with_offset(s, offset))

RECURSIVE main_puts_loop(_, _)
main_puts_loop(s, i) ==
    IF Stopped(s) THEN s
    ELSE IF i >= MEMORY_SIZE THEN Panic(s, "IndexOutOfBounds")
    ELSE IF Mem(s.memory, i) = 0 THEN s
    ELSE main_puts_loop(print(s, << AsU8(Mem(s.memory, i)) >>), i + 1)

RECURSIVE main_putsp_loop(_, _)
main_putsp_loop(s, i) ==
    IF Stopped(s) THEN s
    ELSE IF i >= MEMORY_SIZE THEN Panic(s, "IndexOutOfBounds")
    ELSE IF Mem(s.memory, i) = 0 THEN s
    ELSE LET ch  == Mem(s.memory, i)
             ch1 == And16(ch, 255)
             ch2 == Shr(ch, 8)
             s1  == print(s, << AsU8(ch1) >>)
             s2  == IF ch2 # 0 THEN print(s1, << AsU8(ch2) >>) ELSE s1
         IN  main_putsp_loop(s2, i + 1)

main_handle_trap_code(s, trap_code) ==
    CASE trap_code = "Getc"  -> s
      [] trap_code = "Out"   -> print(s, << AsU8(reg(s, 0)) >>)
      [] trap_code = "Puts"  -> main_puts_loop(s, reg(s, 0))
      [] trap_code = "In"    -> s
      [] trap_code = "Putsp" -> main_putsp_loop(s, reg(s, 0))
      [] trap_code = "Halt"  ->
           IF Stopped(s) THEN s ELSE [s EXCEPT !.running = FALSE]

MainExecADD(s, o, checks) ==
    IF o.sr2.kind = "Reg"
    THEN LET r == AddU16(s, reg(s, o.sr1), reg(s, o.sr2.v), checks)
         IN  WriteResult(r.s, o.dr, r.v)
    ELSE LET res == AsU16(WrappingAddI16(AsI16(reg(s, o.sr1)), o.sr2.v))
         IN  WriteResult(s, o.dr, res)

main_execute(s, o, checks) ==
    CASE o.op = "ADD"  -> MainExecADD(s, o, checks)
      [] o.op = "AND"  -> ExecAND(s, o)
      [] o.op = "BR"   ->
           IF BrTaken(o, cond_flag(s))
           THEN main_set_pc(s, main_pc_with_offset(s, o.offset))
           ELSE s
      [] o.op = "JMP"  -> main_set_pc(s, reg(s, o.base_r))
      [] o.op = "RET"  -> main_set_pc(s, reg(s, REG_RET))
      [] o.op = "JSR"  -> main_set_pc(s, main_pc_with_offset(s, o.offset))
      [] o.op = "JSRR" -> main_set_pc(s, reg(s, o.base_r))
      [] o.op = "LD"   ->
           LET r == main_read_with_offset(s, o.offset)
           IN  WriteResult(r.s, o.dr, r.v)
      [] o.op = "LDI"  ->
           LET r1 == main_read_with_offset(s, o.offset)
               r2 == main_read(r1.s, r1.v)
           IN  WriteResult(r2.s, o.dr, r2.v)
      [] o.op = "LDR"  ->
           LET r == main_read(s, base_r_with_offset(o.base_r, o.offset))
           IN  WriteResult(r.s, o.dr, r.v)
      [] o.op = "LEA"  ->
           WriteResult(s, o.dr, AsU16(main_pc_with_offset(s, o.offset)))
      [] o.op = "NOT"  -> WriteResult(s, o.dr, Not16(reg(s, o.sr)))
      [] o.op = "RTI"  -> s
      [] o.op = "ST"   ->
           mem_store(s, main_pc_with_offset(s, o.offset), reg(s, o.sr))
      [] o.op = "STI"  ->
           LET r == main_read_with_offset(s, o.offset)
           IN  mem_store(r.s, r.v, reg(r.s, o.sr))
      [] o.op = "STR"  ->
           mem_store(s, base_r_with_offset(o.base_r, o.offset), reg(s, o.sr))
      [] o.op = "TRAP" ->
           main_handle_trap_code(reg_set(s, REG_RET, pc(s)), o.trap_code)
      [] o.op = "RESERVED" -> Panic(s, "ReservedInstruction")

\* the escape sequence of termion::clear::All
ClearAll == << 27, 91, 50, 74 >>

----------------------------------------------------------------------------
(* State *)

VARIABLES
    data,         \* the image bytes handed to VM::new
    overflow_checks,  \* the build panics on integer overflow (the dev
                  \* profile) instead of wrapping (the release profile)
    pos,          \* where the caller of the machine stands (see below)
    running, registers, memory,          \* struct VM
    instruction,  \* run's local: the word fetched
    opcode,       \* run's local, or the argument of a direct execute call
    stdin, stdin_eof, stdout_buf, console,
    fault,        \* "none", or the panic that ended the process
    steps,        \* instructions fetched by the run loop so far
    setups        \* setter calls made on the fresh machine so far

vars == << data, overflow_checks, pos, running, registers, memory, instruction, opcode,
           stdin, stdin_eof, stdout_buf, console, fault, steps, setups >>

(* pos:  "start"     before VM::new(data)                                   *)
(*       "ready"     the machine is constructed and no call is in progress  *)
(*       "fetch"     in run, at the head of the while loop                  *)
(*       "advance"   in run, after fetch                                    *)
(*       "decode"    in run, after advance_pc                               *)
(*       "execute"   execute(opcode) is about to run                        *)
(*       "tested"    a direct execute call has returned                     *)
(*       "returned"  run has returned                                       *)
(*       "panicked"  the process has panicked                               *)

VMState ==
    [running |-> running, registers |-> registers, memory |-> memory,
     stdin |-> stdin, stdin_eof |-> stdin_eof,
     stdout_buf |-> stdout_buf, console |-> console,
     fault |-> fault, blocked |-> FALSE]

\* the machine and the streams become s
Becomes(s) ==
    /\ running' = s.running
    /\ registers' = s.registers
    /\ memory' = s.memory
    /\ stdin' = s.stdin
    /\ stdin_eof' = s.stdin_eof
    /\ stdout_buf' = s.stdout_buf
    /\ console' = s.console
    /\ fault' = s.fault

NoOpcode == [op |-> "none"]

----------------------------------------------------------------------------
(* Inputs *)

\* the bytes of a word, big-endian
WordBytes(w) == << w \div 256, w % 256 >>

RECURSIVE ImageBytes(_)
ImageBytes(words) ==
    IF words = << >> THEN << >>
    ELSE WordBytes(Head(words)) \o ImageBytes(Tail(words))

Image(origin, words) == WordBytes(origin) \o ImageBytes(words)

\* origins of the images run by the run loop: the start address, and the two
\* addresses at the top of memory
Origins == {12288, 65534, 65535}

\* words of the images run by the run loop
ProgramWords ==
    { 0,        \* BR with n=z=p=0, offset 0; also the data word 0
      61477,    \* xF025 TRAP Halt
      61478,    \* xF026 TRAP with an unmapped code
      53248,    \* xD000 RESERVED
      40960,    \* xA000 LDI R0, #0: the pointer is the next word
      65024,    \* xFE00 the keyboard status address, as data
      8705,     \* x2201 LD R1, #1
      4161,     \* x1041 ADD R0, R1, R1
      49216,    \* xC040 JMP R1
      65535,    \* xFFFF data
      18433,    \* x4801 JSR #1
      61472,    \* xF020 TRAP Getc
      57855,    \* xE1FF LEA R0, #-1
      33535,    \* x82FF RTI with operand bits set
      37503,    \* x927F NOT R1, R1
      61473,    \* xF021 TRAP Out
      61474,    \* xF022 TRAP Puts
      61475,    \* xF023 TRAP In
      61476     \* xF024 TRAP Putsp
    }

\* programs that write output, or take input, before a later instruction
\* reads the keyboard or loads from memory
Programs ==
    { << 57855, 61476, 61472 >>,   \* LEA R0, #-1; TRAP Putsp; TRAP Getc
      << 57855, 61474, 61472 >>,   \* LEA R0, #-1; TRAP Puts; TRAP Getc
      << 61472, 25089 >>,          \* TRAP Getc; LDR R1, R0, #1
      << 57855, 12289, 49600 >>,   \* LEA R0, #-1; ST R0, #1; RET
      << 57855, 45057, 28672 >>,   \* LEA R0, #-1; STI R0, #1; STR R0, R0, #0
      << 57855, 16384 >>           \* LEA R0, #-1; JSRR R0
    }

\* images whose payload after the origin has an odd number of bytes
OddImages ==
    { << 48, 0, 65 >>,
      << 48, 0, 240, 37, 240 >> }

Images ==
    { Image(o, w) : o \in Origins,
                    w \in UNION { [1 .. k -> ProgramWords] : k \in 0 .. MaxImageWords } }
    \cup { Image(PC_START_POS, w) : w \in Programs }
    \cup OddImages

\* the images the unit tests of vm.rs construct their machines from
TestImages ==
    { << 48, 0, 48, 2, 202, 254, 186, 190 >>,
      << 48, 0, 254, 0, 0, 65 >> }

\* console input bytes: NUL, a letter, a byte above 127
InputBytes == {0, 65, 200}

\* values the tests put in registers
RegVals == {1, 12288, 32767, 32768, 65535}

\* registers the tests set: the operands of TestWords and the link register
SetupRegs == {0, 1, 2, 7}

PcVals == {0, 12293, 65024, 65535}

CondFlags == {"Pos", "Neg", "Zero", "None"}

\* instruction words whose decoded form the tests pass to execute
TestWords ==
    { 4162,     \* x1042 ADD R0, R1, R2
      4194,     \* x1062 ADD R0, R1, #2
      4208,     \* x1070 ADD R0, R1, #-16
      4735,     \* x127F ADD R1, R1, #-1
      20546,    \* x5042 AND R0, R1, R2
      20607,    \* x507F AND R0, R1, #-1
      20576,    \* x5060 AND R0, R1, #0
      36991,    \* x907F NOT R0, R1
      527,      \* x020F BRp #15
      2559,     \* x09FF BRn #-1
      1026,     \* x0402 BRz #2
      2,        \* x0002 BR (n=z=p=0) #2
      3586,     \* x0E02 BRnzp #2
      49216,    \* xC040 JMP R1
      49600,    \* xC1C0 RET
      18447,    \* x480F JSR #15
      20479,    \* x4FFF JSR #-1
      16512,    \* x4080 JSRR R2
      16832,    \* x41C0 JSRR R7
      8192,     \* x2000 LD R0, #0
      8703,     \* x21FF LD R0, #-1
      40960,    \* xA000 LDI R0, #0
      24641,    \* x6041 LDR R0, R1, #1
      24703,    \* x607F LDR R0, R1, #-1
      57855,    \* xE1FF LEA R0, #-1
      57344,    \* xE000 LEA R0, #0
      32768,    \* x8000 RTI
      12802,    \* x3202 ST R1, #2
      45568,    \* xB200 STI R1, #0
      29761,    \* x7441 STR R2, R1, #1
      61472, 61473, 61474, 61475, 61476, 61477,   \* TRAP x20 .. x25
      53248     \* xD000 RESERVED
    }

----------------------------------------------------------------------------
(* Initial states: the process has its input and has not built a machine *)

InitCommon ==
    /\ pos = "start"
    /\ running = FALSE
    /\ registers = [i \in 0 .. 9 |-> 0]
    /\ memory = << >>
    /\ instruction = 0
    /\ opcode = NoOpcode
    /\ stdin = << >>
    /\ stdin_eof = FALSE
    /\ stdout_buf = << >>
    /\ console = << >>
    /\ fault = "none"
    /\ steps = 0
    /\ setups = 0

\* vm.rs has no arithmetic that can overflow unchecked; its machines are
\* explored in the dev profile, which cargo test and cargo run build
Init == data \in Images /\ overflow_checks = TRUE /\ InitCommon

InitUnit == data \in TestImages /\ overflow_checks = TRUE /\ InitCommon

\* the VM of main.rs, in either profile
InitMain == data \in Images /\ overflow_checks \in BOOLEAN /\ InitCommon

----------------------------------------------------------------------------
(* Actions *)

\* VM::new(data)
New ==
    /\ pos = "start"
    /\ LET s == new(Fresh(stdin, stdin_eof), data)
       IN  /\ Becomes(s)
           /\ pos' = IF s.fault = "none" THEN "ready" ELSE "panicked"
    /\ UNCHANGED << data, overflow_checks, instruction, opcode, steps, setups >>

\* a test calls vm.reg_set(idx, val)
TestRegSet(idx, val) ==
    /\ pos = "ready"
    /\ setups < MaxSetup
    /\ Becomes(reg_set(VMState, idx, val))
    /\ setups' = setups + 1
    /\ UNCHANGED << data, overflow_checks, pos, instruction, opcode, steps >>

\* a test calls vm.set_pc(new_pc)
TestSetPc(new_pc) ==
    /\ pos = "ready"
    /\ setups < MaxSetup
    /\ Becomes(set_pc(VMState, new_pc))
    /\ setups' = setups + 1
    /\ UNCHANGED << data, overflow_checks, pos, instruction, opcode, steps >>

\* a test calls vm.set_cond_flag(cond)
TestSetCondFlag(cond) ==
    /\ pos = "ready"
    /\ setups < MaxSetup
    /\ Becomes(set_cond_flag(VMState, cond))
    /\ setups' = setups + 1
    /\ UNCHANGED << data, overflow_checks, pos, instruction, opcode, steps >>

\* a test builds an Opcode value and calls vm.execute on it
TestExecute(word) ==
    /\ pos = "ready"
    /\ try_from(word).res = "Ok"
    /\ opcode' = try_from(word).opcode
    /\ pos' = "execute"
    /\ UNCHANGED << data, overflow_checks, running, registers, memory, instruction,
                    stdin, stdin_eof, stdout_buf, console, fault, steps, setups >>

\* the value a decoder test puts in register idx
FillValue(idx) == 12304 + 257 * idx

\* a test gives each of the registers 0..7 a value of its own with vm.reg_set
RECURSIVE fill_registers(_, _)
fill_registers(s, idx) ==
    IF idx > 7 THEN s
    ELSE fill_registers(reg_set(s, idx, FillValue(idx)), idx + 1)

TestFill ==
    /\ pos = "ready"
    /\ setups = 0
    /\ Becomes(fill_registers(VMState, 0))
    /\ setups' = 1
    /\ UNCHANGED << data, overflow_checks, pos, instruction, opcode, steps >>

\* a test calls Opcode::try_from(word) and, when it yields an opcode, passes
\* the opcode to vm.execute
TestTryFrom(word) ==
    /\ pos = "ready"
    /\ setups = 1
    /\ instruction' = word
    /\ LET d == try_from(word)
       IN  /\ opcode' = IF d.res = "Ok" THEN d.opcode ELSE NoOpcode
           /\ fault' = IF d.res = "Panic" THEN "UnknownTrapCode" ELSE fault
           /\ pos' = CASE d.res = "Ok" -> "execute"
                       [] d.res = "Err" -> "tested"
                       [] OTHER -> "panicked"
    /\ UNCHANGED << data, overflow_checks, running, registers, memory,
                    stdin, stdin_eof, stdout_buf, console, steps, setups >>

\* vm.run() is called: self.running = true
Run ==
    /\ pos \in {"ready", "returned"}
    /\ running' = TRUE
    /\ pos' = "fetch"
    /\ UNCHANGED << data, overflow_checks, registers, memory, instruction, opcode,
                    stdin, stdin_eof, stdout_buf, console, fault, steps, setups >>

\* while self.running { let instruction = self.fetch();
Fetch ==
    /\ pos = "fetch"
    /\ running
    /\ steps < MaxSteps
    /\ instruction' = fetch(VMState)
    /\ steps' = steps + 1
    /\ pos' = "advance"
    /\ UNCHANGED << data, overflow_checks, running, registers, memory, opcode,
                    stdin, stdin_eof, stdout_buf, console, fault, setups >>

\* the while condition fails and run returns
LoopExit ==
    /\ pos = "fetch"
    /\ ~running
    /\ pos' = "returned"
    /\ UNCHANGED << data, overflow_checks, running, registers, memory, instruction, opcode,
                    stdin, stdin_eof, stdout_buf, console, fault, steps, setups >>

\* self.advance_pc();
AdvancePc ==
    /\ pos = "advance"
    /\ LET s == advance_pc(VMState)
       IN  /\ Becomes(s)
           /\ pos' = IF s.fault = "none" THEN "decode" ELSE "panicked"
    /\ UNCHANGED << data, overflow_checks, instruction, opcode, steps, setups >>

\* let Ok(opcode) = Opcode::try_from(instruction) else { running = false; break }
Decode ==
    /\ pos = "decode"
    /\ LET d == try_from(instruction)
       IN  /\ opcode' = IF d.res = "Ok" THEN d.opcode ELSE NoOpcode
           /\ running' = IF d.res = "Err" THEN FALSE ELSE running
           /\ fault' = IF d.res = "Panic" THEN "UnknownTrapCode" ELSE fault
           /\ pos' = CASE d.res = "Ok" -> "execute"
                       [] d.res = "Err" -> "returned"
                       [] OTHER -> "panicked"
    /\ UNCHANGED << data, overflow_checks, registers, memory, instruction,
                    stdin, stdin_eof, stdout_buf, console, steps, setups >>

\* self.execute(opcode), from run (running holds) or from a test
Execute ==
    /\ pos = "execute"
    /\ LET s == execute(VMState, opcode)
       IN  /\ ~s.blocked
           /\ Becomes(s)
           /\ pos' = IF s.fault # "none" THEN "panicked"
                     ELSE IF running THEN "fetch"
                     ELSE "tested"
    /\ UNCHANGED << data, overflow_checks, instruction, opcode, steps, setups >>

\* execute waits in a read of standard input
Blocked == pos = "execute" /\ execute(VMState, opcode).blocked

\* the instruction about to execute reads standard input
AwaitsInput ==
    /\ pos = "execute"
    /\ execute([VMState EXCEPT !.stdin = << >>, !.stdin_eof = FALSE], opcode).blocked

\* a key is pressed before the instruction that reads it executes
KeyPress(b) ==
    /\ AwaitsInput
    /\ ~stdin_eof
    /\ Len(stdin) < MaxStdin
    /\ stdin' = Append(stdin, b)
    /\ UNCHANGED << data, overflow_checks, pos, running, registers, memory, instruction, opcode,
                    stdin_eof, stdout_buf, console, fault, steps, setups >>

\* standard input reaches its end while the machine waits for input
CloseStdin ==
    /\ Blocked
    /\ ~stdin_eof
    /\ stdin_eof' = TRUE
    /\ UNCHANGED << data, overflow_checks, pos, running, registers, memory, instruction, opcode,
                    stdin, stdout_buf, console, fault, steps, setups >>

----------------------------------------------------------------------------
(* Specifications *)

\* a program image is loaded and run, as main does
Next ==
    \/ New
    \/ Run
    \/ Fetch
    \/ LoopExit
    \/ AdvancePc
    \/ Decode
    \/ Execute
    \/ \E b \in InputBytes : KeyPress(b)
    \/ CloseStdin

Spec == Init /\ [][Next]_vars

\* a machine is built, set up and given one instruction to execute, as the
\* unit tests of vm.rs do
NextUnit ==
    \/ New
    \/ \E idx \in SetupRegs, val \in RegVals : TestRegSet(idx, val)
    \/ \E new_pc \in PcVals : TestSetPc(new_pc)
    \/ \E cond \in CondFlags : TestSetCondFlag(cond)
    \/ \E word \in TestWords : TestExecute(word)
    \/ Execute
    \/ \E b \in InputBytes : KeyPress(b)
    \/ CloseStdin

SpecUnit == InitUnit /\ [][NextUnit]_vars

\* every 16-bit word is decoded and the opcode executed on a machine whose
\* registers 0..7 hold distinct values, as the unit tests of opcodes.rs and
\* vm.rs do for single words
InitDecode ==
    /\ data = << 48, 0, 48, 2, 202, 254, 186, 190 >>
    /\ overflow_checks = TRUE
    /\ InitCommon

NextDecode ==
    \/ New
    \/ TestFill
    \/ (pos = "ready" /\ \E word \in U16 : TestTryFrom(word))
    \/ Execute

SpecDecode == InitDecode /\ [][NextDecode]_vars

----------------------------------------------------------------------------
(* The VM of main.rs under its run loop.  VM::new, fetch, the loop exit and  *)
(* the decoding are the code modelled by New, Fetch, LoopExit and Decode.    *)

\* main.rs run: self.running = true; self.terminal.clear();
MainRun ==
    /\ pos = "ready"
    /\ Becomes([print(VMState, ClearAll) EXCEPT !.running = TRUE])
    /\ pos' = "fetch"
    /\ UNCHANGED << data, overflow_checks, instruction, opcode, steps, setups >>

\* main.rs: self.advance_pc();
MainAdvancePc ==
    /\ pos = "advance"
    /\ LET s == main_advance_pc(VMState, overflow_checks)
       IN  /\ Becomes(s)
           /\ pos' = IF s.fault = "none" THEN "decode" ELSE "panicked"
    /\ UNCHANGED << data, overflow_checks, instruction, opcode, steps, setups >>

\* main.rs: self.execute(opcode);
MainExecute ==
    /\ pos = "execute"
    /\ LET s == main_execute(VMState, opcode, overflow_checks)
       IN  /\ Becomes(s)
           /\ pos' = IF s.fault = "none" THEN "fetch" ELSE "panicked"
    /\ UNCHANGED << data, overflow_checks, instruction, opcode, steps, setups >>

NextMain ==
    \/ New
    \/ MainRun
    \/ Fetch
    \/ LoopExit
    \/ MainAdvancePc
    \/ Decode
    \/ MainExecute

SpecMain == InitMain /\ [][NextMain]_vars

----------------------------------------------------------------------------
(* Vocabulary of the claims *)

\* a call of execute returns or panics in this step
ExecCall == pos = "execute" /\ pos' # "execute"

\* a call of execute returns in this step
ExecReturns == pos = "execute" /\ pos' \in {"fetch", "tested"}

\* the condition flag held by a register file
FlagOf(regs) == cond_flag([registers |-> regs])

\* the sign class of a 16-bit word read as a signed number
SignClass(w) ==
    IF w >= 32768 THEN "Neg" ELSE IF w = 0 THEN "Zero" ELSE "Pos"

\* the instructions that define the flags, and the register they write
FlagSetting(o) ==
    \/ o.op \in {"ADD", "AND", "NOT", "LD", "LDI", "LDR", "LEA"}
    \/ o.op = "TRAP" /\ o.trap_code \in {"Getc", "In"}

Dest(o) == IF o.op = "TRAP" THEN 0 ELSE o.dr

\* the image format: a big-endian origin, then big-endian words
ImageOrigin(d) == d[1] * 256 + d[2]

ImageCount(d) == (Len(d) - 2) \div 2

ImageWord(d, i) == d[3 + 2 * i] * 256 + d[4 + 2 * i]

\* VM::new has just returned or panicked
Constructed == pos \in {"ready", "panicked"} /\ steps = 0 /\ setups = 0

----------------------------------------------------------------------------
(* Claims *)

\* C1: after any flag-setting instruction (ADD, AND, NOT, LD, LDI, LDR, LEA,
\* Getc, In) the COND register holds exactly one of the three flag bits, and
\* the flag is the sign class of the value now in the destination register:
\* bit 15 set gives Negative, 0 gives Zero, anything else Positive.
C1_FlagsFollowResult ==
    [][ (ExecReturns /\ FlagSetting(opcode)) =>
          /\ registers'[REG_IDX_COND] \in {1, 2, 4}
          /\ FlagOf(registers') = SignClass(registers'[Dest(opcode)])
      ]_vars

\* C1 witness: a load has left a word with bit 15 set in its destination and
\* the flag Negative
C1_Witness ==
    /\ pos = "tested"
    /\ opcode.op = "LDI"
    /\ registers[opcode.dr] >= 32768
    /\ FlagOf(registers) = "Neg"

\* the second operand of an ADD, as an integer
AddOperand(o, regs) == IF o.sr2.kind = "Reg" THEN regs[o.sr2.v] ELSE o.sr2.v

\* C2: ADD never faults; dr becomes (a + b) mod 65536 in the register form
\* and (a + imm) mod 65536, imm in -16..15, in the immediate form; the
\* registers other than dr keep their values.
C2_AddWraps ==
    [][ (ExecCall /\ opcode.op = "ADD") =>
          /\ fault' = "none"
          /\ opcode.sr2.kind = "Immediate" => opcode.sr2.v \in -16 .. 15
          /\ registers'[opcode.dr] =
               (registers[opcode.sr1] + AddOperand(opcode, registers)) % 65536
          /\ \A i \in 0 .. 7 : i # opcode.dr => registers'[i] = registers[i]
      ]_vars

\* C3: BR is taken exactly when the bit matching the active flag is set; a
\* taken BR sets PC to (PC + offset) mod 65536 and changes nothing else; a BR
\* not taken changes nothing.  So a BR with n=z=p=0 and a BR under an unset
\* flag are never taken.
C3_BranchTaken ==
    [][ (ExecCall /\ opcode.op = "BR") =>
          LET c     == registers[REG_IDX_COND]
              taken == \/ opcode.n /\ c = 4
                       \/ opcode.z /\ c = 2
                       \/ opcode.p /\ c = 1
          IN  /\ fault' = "none"
              /\ registers' =
                   IF taken
                   THEN [registers EXCEPT
                           ![REG_IDX_PC] = (registers[REG_IDX_PC] + opcode.offset) % 65536]
                   ELSE registers
              /\ memory' = memory
              /\ running' = running
              /\ (c \notin {1, 2, 4} \/ ~(opcode.n \/ opcode.z \/ opcode.p))
                   => registers' = registers
      ]_vars

\* C3 witness: BRn with offset -1 was taken from PC 0 and wrapped to xFFFF
C3_Witness ==
    /\ pos = "tested"
    /\ opcode.op = "BR"
    /\ opcode.n /\ opcode.offset = -1
    /\ FlagOf(registers) = "Neg"
    /\ registers[REG_IDX_PC] = 65535

\* C4: PC arithmetic is modulo 65536 and never faults: the per-step advance
\* takes PC to (PC + 1) mod 65536, so xFFFF to 0, and a taken BR and a JSR
\* take PC to (PC + offset) mod 65536.
C4_PcArithmeticWraps ==
    [][ /\ pos = "advance" =>
             /\ fault' = "none"
             /\ registers'[REG_IDX_PC] = (registers[REG_IDX_PC] + 1) % 65536
        /\ (ExecCall /\ opcode.op = "BR" /\ FlagOf(registers') # FlagOf(registers)) => FALSE
        /\ (ExecCall /\ opcode.op = "BR" /\ BrTaken(opcode, FlagOf(registers))) =>
             /\ fault' = "none"
             /\ registers'[REG_IDX_PC] = (registers[REG_IDX_PC] + opcode.offset) % 65536
        /\ (ExecCall /\ opcode.op = "JSR") =>
             /\ fault' = "none"
             /\ registers'[REG_IDX_PC] = (registers[REG_IDX_PC] + opcode.offset) % 65536
      ]_vars

\* C5: in the run loop, a word is fetched, advanced over, decoded and executed
\* only while the machine is running; the word fetched is the one at PC, and
\* from then until it has been executed PC is the address after it.
C5_FetchAdvanceDecodeExecute ==
    /\ pos \in {"advance", "decode", "execute"} => running
    /\ pos = "advance" => instruction = Mem(memory, registers[REG_IDX_PC])
    /\ pos \in {"decode", "execute"} =>
         instruction = Mem(memory, (registers[REG_IDX_PC] - 1) % 65536)
    /\ pos = "execute" => try_from(instruction) = Ok(opcode)

\* C5 witness: the word fetched at xFFFF is about to be decoded with PC = 0
C5_Witness ==
    /\ pos = "decode"
    /\ registers[REG_IDX_PC] = 0
    /\ steps = 3

\* C6: JSR and JSRR save the PC they find (the post-increment PC) in register
\* 7; JSR then sets PC to (p + offset) mod 65536 and JSRR sets PC to the value
\* of the base register.
C6_LinkThenJump ==
    [][ /\ (ExecCall /\ opcode.op = "JSR") =>
             /\ fault' = "none"
             /\ registers'[REG_RET] = registers[REG_IDX_PC]
             /\ registers'[REG_IDX_PC] = (registers[REG_IDX_PC] + opcode.offset) % 65536
        /\ (ExecCall /\ opcode.op = "JSRR") =>
             /\ fault' = "none"
             /\ registers'[REG_RET] = registers[REG_IDX_PC]
             /\ registers'[REG_IDX_PC] = registers'[opcode.base_r]
      ]_vars

\* C6 witness: JSR #15 from PC x3005 has linked x3005 and jumped to x3014
C6_Witness ==
    /\ pos = "tested"
    /\ opcode.op = "JSR"
    /\ opcode.offset = 15
    /\ registers[REG_RET] = 12293
    /\ registers[REG_IDX_PC] = 12308

\* C7: after loading an image of origin o and n words, word i is at address
\* o + i for every i < n (among the addresses of the machine), and every other
\* cell is zero.
C7_ImagePlaced ==
    (Constructed /\ fault = "none") =>
        LET o == ImageOrigin(data)
            n == ImageCount(data)
        IN  /\ \A i \in 0 .. n - 1 :
                 o + i <= 65535 => Mem(memory, o + i) = ImageWord(data, i)
            /\ \A a \in DOMAIN memory : a \in o .. o + n - 1

\* C8: when the image holds at least 65536 - o words, loading does not fault
\* and every address from o up to and including xFFFF receives its word.
C8_LoadReachesTop ==
    (Constructed /\ ImageCount(data) >= 65536 - ImageOrigin(data)) =>
        /\ fault = "none"
        /\ \A a \in ImageOrigin(data) .. 65535 :
             Mem(memory, a) = ImageWord(data, a - ImageOrigin(data))

\* the instruction about to execute is a load whose last read is of the
\* keyboard status address, and no read before it is
KbsrLoad ==
    /\ pos = "execute"
    /\ \/ /\ opcode.op = "LD"
          /\ pc_with_offset(VMState, opcode.offset) = MR_KBSR
       \/ /\ opcode.op = "LDI"
          /\ pc_with_offset(VMState, opcode.offset) # MR_KBSR
          /\ Mem(memory, pc_with_offset(VMState, opcode.offset)) = MR_KBSR

\* C9: a read of the keyboard status address with no input available yields 0
\* (and leaves 0 in the status cell); with a byte b # 0 available it leaves
\* x8000 in the status cell and b in the data cell.
C9_KeyboardStatus ==
    [][ (KbsrLoad /\ pos' # "execute") =>
          /\ stdin = << >> =>
               /\ fault' = "none"
               /\ registers'[opcode.dr] = 0
               /\ Mem(memory', MR_KBSR) = 0
          /\ (stdin # << >> /\ Head(stdin) # 0) =>
               /\ fault' = "none"
               /\ Mem(memory', MR_KBSR) = 32768
               /\ Mem(memory', MR_KBDR) = Head(stdin)
      ]_vars

\* a TRAP word whose low 8 bits are not one of x20 .. x25
UnmappedTrap(w) == w \div 4096 = 15 /\ (w % 256) \notin 32 .. 37

\* C10: decoding a TRAP word with an unmapped code returns a decode error to
\* the run loop, which halts the machine: no panic, running is false and run
\* returns.
C10_UnmappedTrapHalts ==
    [][ (pos = "decode" /\ UnmappedTrap(instruction)) =>
          /\ fault' = "none"
          /\ ~running'
          /\ pos' = "returned"
      ]_vars

\* C11: every word with top nibble 1101 decodes to the RESERVED sentinel,
\* never to a decode error; executing RESERVED puts the machine in the Halted
\* state (running is false) without a panic, and the loop fetches no more.
C11_ReservedHalts ==
    [][ /\ (pos = "decode" /\ instruction \div 4096 = 13) =>
             /\ \A w \in 53248 .. 57343 : try_from(w) = Ok([op |-> "RESERVED"])
             /\ pos' = "execute"
             /\ opcode' = [op |-> "RESERVED"]
        /\ (ExecCall /\ opcode.op = "RESERVED") =>
             /\ ~running'
             /\ fault' = "none"
      ]_vars

\* C12: executing TRAP Halt leaves the machine not running and changes no
\* memory cell and no register other than register 7; from there the run loop
\* returns without another fetch, advance or execute.
C12_HaltStops ==
    [][ /\ (ExecCall /\ opcode.op = "TRAP" /\ opcode.trap_code = "Halt") =>
             /\ ~running'
             /\ fault' = "none"
             /\ memory' = memory
             /\ \A i \in 0 .. 9 : i # REG_RET => registers'[i] = registers[i]
        /\ (pos = "fetch" /\ ~running) =>
             /\ pos' = "returned"
             /\ steps' = steps
             /\ registers' = registers
             /\ memory' = memory
      ]_vars

\* C12 witness: run has returned after a Halt executed as its first instruction
C12_Witness ==
    /\ pos = "returned"
    /\ ~running
    /\ opcode = [op |-> "TRAP", trap_code |-> "Halt"]
    /\ steps = 1
    /\ registers[REG_RET] = 12289

\* the panics of an access outside the memory array
OutOfBoundsFaults == {"MemReadOutOfBounds", "IndexOutOfBounds", "FetchOutOfBounds"}

\* C13: no memory access is out of bounds: in every reachable state the
\* address LDR or STR is about to use lies in 0..65535, and no fetch, load,
\* store or string trap has panicked on an address outside the array.
C13_NoOutOfBounds ==
    /\ fault \notin OutOfBoundsFaults
    /\ (pos = "execute" /\ opcode.op \in {"LDR", "STR"}) =>
         BaseDir(VMState, opcode) \in 0 .. 65535

\* the effective address of LDR and STR
EffectiveAddress(o, regs) == (regs[o.base_r] + o.offset) % 65536

\* C14: LDR and STR never fault and use the address (registers[base_r] +
\* offset) mod 65536, for every base value and every offset in -32..31: LDR
\* loads that cell into dr, STR stores sr into that cell and changes no other
\* cell.
C14_BaseOffsetAddress ==
    [][ /\ (ExecCall /\ opcode.op \in {"LDR", "STR"}) =>
             /\ opcode.offset \in -32 .. 31
             /\ fault' = "none"
        /\ (ExecCall /\ opcode.op = "LDR") =>
             registers'[opcode.dr] = Mem(memory', EffectiveAddress(opcode, registers))
        /\ (ExecCall /\ opcode.op = "STR") =>
             memory' = MemWith(memory, EffectiveAddress(opcode, registers),
                               registers[opcode.sr])
      ]_vars

\* the cells other than the two keyboard cells are the same in m1 and m2
SameButKeyboard(m1, m2) ==
    \A a \in DOMAIN m1 \cup DOMAIN m2 :
        a \notin {MR_KBSR, MR_KBDR} => Mem(m1, a) = Mem(m2, a)

\* C15: LD loads dr from memory[(PC + offset) mod 65536] and LDI from
\* memory[memory[(PC + offset) mod 65536]], PC being the PC execute finds
\* (already advanced); neither changes PC, a register other than dr, or a
\* memory cell other than the keyboard cells.  (A read of the keyboard status
\* address sees the status that read produces.)
C15_PcRelativeLoads ==
    [][ /\ (ExecReturns /\ opcode.op = "LD") =>
             LET a == (registers[REG_IDX_PC] + opcode.offset) % 65536
             IN  registers'[opcode.dr] = Mem(memory', a)
        /\ (ExecReturns /\ opcode.op = "LDI") =>
             LET a == (registers[REG_IDX_PC] + opcode.offset) % 65536
                 p == IF a = MR_KBSR THEN Mem(memory', a) ELSE Mem(memory, a)
             IN  registers'[opcode.dr] = Mem(memory', p)
        /\ (ExecReturns /\ opcode.op \in {"LD", "LDI"}) =>
             /\ \A i \in 0 .. 8 : i # opcode.dr => registers'[i] = registers[i]
             /\ SameButKeyboard(memory, memory')
      ]_vars

\* C15 witness: LDI R0, #0 at PC x3000 has followed the pointer x3002 to xBABE
C15_Witness ==
    /\ pos = "tested"
    /\ opcode.op = "LDI"
    /\ registers[REG_IDX_PC] = 12288
    /\ Mem(memory, 12288) = 12290
    /\ registers[0] = 47806

\* the address ST stores to and STI reads its pointer from
PcOffsetAddress == (registers[REG_IDX_PC] + opcode.offset) % 65536

\* C16 as stated: ST writes registers[sr] to memory[(PC + offset) mod 65536]
\* and STI to memory[memory[(PC + offset) mod 65536]]; each changes exactly
\* that one cell and leaves every register, the PC and the flag unchanged.
C16_StoreOneCell ==
    [][ /\ (ExecReturns /\ opcode.op = "ST") =>
             /\ memory' = MemWith(memory, PcOffsetAddress, registers[opcode.sr])
             /\ registers' = registers
        /\ (ExecReturns /\ opcode.op = "STI") =>
             /\ memory' = MemWith(memory, Mem(memory, PcOffsetAddress),
                                  registers[opcode.sr])
             /\ registers' = registers
      ]_vars

\* C16 amended: as stated, except that an STI whose pointer address is the
\* keyboard status address reads the status that read produces, stores
\* through it, and leaves the keyboard status and data cells as the read set
\* them; every other cell is unchanged.
C16_StoreOneCellButKeyboard ==
    [][ /\ (ExecReturns /\ opcode.op = "ST") =>
             /\ memory' = MemWith(memory, PcOffsetAddress, registers[opcode.sr])
             /\ registers' = registers
        /\ (ExecReturns /\ opcode.op = "STI" /\ PcOffsetAddress # MR_KBSR) =>
             /\ memory' = MemWith(memory, Mem(memory, PcOffsetAddress),
                                  registers[opcode.sr])
             /\ registers' = registers
        /\ (ExecReturns /\ opcode.op = "STI" /\ PcOffsetAddress = MR_KBSR) =>
             LET p == Mem(memory', MR_KBSR)
             IN  /\ p \in {0, 32768}
                 /\ Mem(memory', p) = registers[opcode.sr]
                 /\ SameButKeyboard(MemWith(memory, p, registers[opcode.sr]), memory')
                 /\ registers' = registers
      ]_vars

\* C16 witness: STI R1 with its pointer at the keyboard status address has
\* read the key 'A' and stored R1 through the status x8000
C16_Witness ==
    /\ pos = "tested"
    /\ opcode.op = "STI"
    /\ registers[REG_IDX_PC] = MR_KBSR
    /\ Mem(memory, MR_KBSR) = 32768
    /\ Mem(memory, MR_KBDR) = 65
    /\ registers[opcode.sr] # 0
    /\ Mem(memory, 32768) = registers[opcode.sr]

\* C17: a TRAP word is fetched at the PC, say a; the advance makes the PC
\* (a + 1) mod 65536 and decoding leaves it there; executing the TRAP, for
\* every trap code, puts that PC in register 7 and, when the trap returns, the
\* PC is still (a + 1) mod 65536.
C17_TrapLinks ==
    [][ /\ (pos = "fetch" /\ running) =>
             /\ instruction' = Mem(memory, registers[REG_IDX_PC])
             /\ registers' = registers
        /\ pos = "advance" =>
             registers'[REG_IDX_PC] = (registers[REG_IDX_PC] + 1) % 65536
        /\ pos = "decode" => registers' = registers
        /\ (ExecReturns /\ opcode.op = "TRAP") =>
             /\ opcode.trap_code \in {"Getc", "Out", "Puts", "In", "Putsp", "Halt"}
             /\ registers'[REG_RET] = registers[REG_IDX_PC]
             /\ registers'[REG_IDX_PC] = registers[REG_IDX_PC]
      ]_vars

\* C17 witness: TRAP In fetched at x3001 has returned with register 7 and the
\* PC at x3002
C17_Witness ==
    /\ pos = "fetch"
    /\ steps = 2
    /\ opcode = [op |-> "TRAP", trap_code |-> "In"]
    /\ instruction = 61475
    /\ registers[REG_RET] = 12290
    /\ registers[REG_IDX_PC] = 12290

\* the instruction about to execute is the Getc or the In trap
InputTrap ==
    /\ pos = "execute"
    /\ opcode.op = "TRAP"
    /\ opcode.trap_code \in {"Getc", "In"}

\* C18: Getc and In wait while no input byte is pending; when they return
\* they have consumed exactly the first pending byte b, register 0 is b (in
\* 0..255) and the flag is Zero when b = 0 and Positive otherwise.
C18_InputTraps ==
    [][ /\ (InputTrap /\ stdin = << >> /\ ~stdin_eof) =>
             /\ pos' = "execute"
             /\ registers' = registers
        /\ (InputTrap /\ ExecReturns) =>
             /\ stdin # << >>
             /\ stdin' = Tail(stdin)
             /\ Head(stdin) \in 0 .. 255
             /\ registers'[0] = Head(stdin)
             /\ FlagOf(registers') = IF Head(stdin) = 0 THEN "Zero" ELSE "Pos"
      ]_vars

\* C18 witness: In has taken the byte 200 into register 0 with the flag
\* Positive and left the byte typed after it pending
C18_Witness ==
    /\ pos = "tested"
    /\ opcode = [op |-> "TRAP", trap_code |-> "In"]
    /\ registers[0] = 200
    /\ FlagOf(registers) = "Pos"
    /\ stdin = << 65 >>

\* every byte written to standard output so far, in order
Output(c, buf) == c \o buf

\* C19: the Out trap never faults and writes exactly one byte to the console
\* output, register 0's low 8 bits, for every value 0..255 of that byte; it
\* changes no register other than register 7 and no memory cell.
C19_OutOneByte ==
    [][ (ExecCall /\ opcode.op = "TRAP" /\ opcode.trap_code = "Out") =>
          /\ fault' = "none"
          /\ Output(console', stdout_buf') =
               Output(console, stdout_buf) \o << registers[0] % 256 >>
          /\ \A i \in 0 .. 9 : i # REG_RET => registers'[i] = registers[i]
          /\ memory' = memory
      ]_vars

\* the low bytes of the cells from address a up to the first zero cell
RECURSIVE LowBytesFrom(_, _)
LowBytesFrom(m, a) ==
    IF a > 65535 \/ Mem(m, a) = 0 THEN << >>
    ELSE << Mem(m, a) % 256 >> \o LowBytesFrom(m, a + 1)

\* C20: the Puts trap writes, in address order from the address in register
\* 0, the low byte of each cell up to but not including the first zero cell
\* (nothing when the first cell is zero), and leaves register 0 and memory
\* unchanged.
C20_PutsLowBytes ==
    [][ (ExecReturns /\ opcode.op = "TRAP" /\ opcode.trap_code = "Puts") =>
          /\ Output(console', stdout_buf') =
               Output(console, stdout_buf) \o LowBytesFrom(memory, registers[0])
          /\ registers'[0] = registers[0]
          /\ memory' = memory
      ]_vars

\* the bytes packed in the cells from address a up to the first zero cell:
\* of each cell the low byte, then the high byte when it is not zero
RECURSIVE PackedBytesFrom(_, _)
PackedBytesFrom(m, a) ==
    IF a > 65535 \/ Mem(m, a) = 0 THEN << >>
    ELSE LET lo == Mem(m, a) % 256
             hi == Mem(m, a) \div 256
         IN  (IF hi = 0 THEN << lo >> ELSE << lo, hi >>) \o PackedBytesFrom(m, a + 1)

\* C21: the Putsp trap writes, for each cell from the address in register 0
\* up to but not including the first zero cell, the cell's low byte and then
\* its high byte when that is not zero.
C21_PutspPackedBytes ==
    [][ (ExecReturns /\ opcode.op = "TRAP" /\ opcode.trap_code = "Putsp") =>
          Output(console', stdout_buf') =
            Output(console, stdout_buf) \o PackedBytesFrom(memory, registers[0])
      ]_vars

\* C22: every byte written by an output trap (Out, Puts, Putsp, the prompt of
\* In) has reached the console before the machine next waits for input: while
\* an instruction waits for a key, no written byte is still buffered.
C22_FlushedBeforeInput ==
    (Blocked /\ ~stdin_eof) => stdout_buf = << >>

\* the addresses a load about to execute reads
LoadAddresses ==
    CASE opcode.op = "LD"  -> { PcOffsetAddress }
      [] opcode.op = "LDI" -> { PcOffsetAddress, Mem(memory, PcOffsetAddress) }
      [] opcode.op = "LDR" -> { EffectiveAddress(opcode, registers) }

\* a load that reads no keyboard status address is about to execute
PlainLoad ==
    /\ pos = "execute"
    /\ opcode.op \in {"LD", "LDI", "LDR"}
    /\ MR_KBSR \notin LoadAddresses

\* C23: the keyboard status address is the only one with read side effects: a
\* load (LD, LDI, LDR) whose accessed addresses do not include it never waits
\* for input, leaves every memory cell unchanged and consumes no console
\* input.
C23_PlainLoadsOnlyRead ==
    [][ PlainLoad =>
          /\ ~AwaitsInput
          /\ memory' = memory
          /\ stdin' = stdin
          /\ stdin_eof' = stdin_eof
      ]_vars

\* an LDR has executed while a typed key was still pending
C23_Witness ==
    /\ pos = "fetch"
    /\ opcode.op = "LDR"
    /\ registers[0] = 65
    /\ registers[opcode.dr] = Mem(memory, 66)
    /\ Len(stdin) = 1

\* C24: after construction from any valid image, whatever its origin, the
\* machine is Running, the PC is 0x3000, the flag is Unset and registers 0..7
\* are all zero.
C24_ConstructedRunning ==
    (Constructed /\ pos = "ready") =>
        /\ running
        /\ registers[REG_IDX_PC] = PC_START_POS
        /\ FlagOf(registers) = "None"
        /\ \A i \in 0 .. 7 : registers[i] = 0

\* the run loop has stopped the machine: TRAP Halt or a decode failure has
\* cleared the running flag
Halted == ~running /\ fault = "none" /\ pos \in {"fetch", "returned"}

\* C25: Halted is absorbing: once the machine is Halted, no later operation on
\* it, invoking run again included, returns it to Running or changes its
\* registers or memory.
C25_HaltedAbsorbing ==
    [][ Halted =>
          /\ running' = FALSE
          /\ registers' = registers
          /\ memory' = memory
      ]_vars

\* bits hi..lo of a word, as a number
Bits(w, hi, lo) == (w \div 2 ^ lo) % 2 ^ (hi - lo + 1)

\* the two's-complement value of a field of the given width
TwosComplement(v, width) == IF v >= 2 ^ (width - 1) THEN v - 2 ^ width ELSE v

\* a word has been handed to the decoder
Tried == pos \notin {"start", "ready"}

\* what a sign-extension helper must return for a word and a field width
SignExtended(r, w, width) ==
    /\ r = TwosComplement(Bits(w, width - 1, 0), width)
    /\ r \in -(2 ^ (width - 1)) .. 2 ^ (width - 1) - 1
    /\ r % 2 ^ width = w % 2 ^ width

\* C26: for each field width 5, 6, 9 and 11 and every 16-bit word, the
\* sign-extension helper returns the two's-complement value of the word's low
\* bits of that width, which lies in -2^(width-1) .. 2^(width-1)-1, does not
\* depend on the higher bits, and has the word's low bits as its own.
C26_SignExtension ==
    /\ SignExtended(sign_ext_imm5(instruction), instruction, 5)
    /\ SignExtended(sign_ext_imm6(instruction), instruction, 6)
    /\ SignExtended(sign_ext_imm9(instruction), instruction, 9)
    /\ SignExtended(sign_ext_imm11(instruction), instruction, 11)

\* a word with bits set above a negative 5-bit field has been decoded
C26_Witness ==
    /\ pos = "execute"
    /\ instruction = 4735
    /\ opcode.op = "ADD"
    /\ opcode.sr2 = Immediate(-1)
    /\ sign_ext_imm11(instruction) = 639

\* the second operand of ADD and AND as the instruction word encodes it
SecondOperand(w) ==
    IF Bits(w, 5, 5) = 0
    THEN Reg(Bits(w, 2, 0))
    ELSE Immediate(TwosComplement(Bits(w, 4, 0), 5))

\* C27: every word whose top nibble is 0001 (ADD) or 0101 (AND) decodes with
\* dr = bits 11..9 and sr1 = bits 8..6; with bit 5 clear the second operand is
\* the register bits 2..0, with bit 5 set it is the immediate
\* signExtend(bits 4..0, 5), which lies in -16..15.
C27_DecodeAddAnd ==
    (Tried /\ Bits(instruction, 15, 12) \in {1, 5}) =>
        /\ opcode = [op  |-> IF Bits(instruction, 15, 12) = 1 THEN "ADD" ELSE "AND",
                     dr  |-> Bits(instruction, 11, 9),
                     sr1 |-> Bits(instruction, 8, 6),
                     sr2 |-> SecondOperand(instruction)]
        /\ opcode.sr2.kind = "Immediate" => opcode.sr2.v \in -16 .. 15

\* AND R5, R2, #-16 has been decoded and executed
C27_Witness ==
    /\ pos = "tested"
    /\ instruction = 23216
    /\ opcode = [op |-> "AND", dr |-> 5, sr1 |-> 2, sr2 |-> Immediate(-16)]
    /\ registers[5] = 12816

\* C28: every word whose top nibble is 0000 decodes to BR with n = bit 11,
\* z = bit 10, p = bit 9 and offset = signExtend(bits 8..0, 9); the all-zero
\* word decodes to BR with n, z and p false and offset 0.
C28_DecodeBr ==
    (Tried /\ Bits(instruction, 15, 12) = 0) =>
        /\ opcode = [op |-> "BR",
                     n |-> Bits(instruction, 11, 11) = 1,
                     z |-> Bits(instruction, 10, 10) = 1,
                     p |-> Bits(instruction, 9, 9) = 1,
                     offset |-> TwosComplement(Bits(instruction, 8, 0), 9)]
        /\ instruction = 0 =>
             opcode = [op |-> "BR", n |-> FALSE, z |-> FALSE, p |-> FALSE, offset |-> 0]

\* BRn #-256, which has only the n bit and the sign bit of the offset set, has
\* been decoded
C28_Witness ==
    /\ pos = "execute"
    /\ instruction = 2304
    /\ opcode = [op |-> "BR", n |-> TRUE, z |-> FALSE, p |-> FALSE, offset |-> -256]

\* C29: every word whose top nibble is 1100 decodes to RET when bits 8..6 are
\* 7 and otherwise to JMP with base_r = bits 8..6, whatever its other bits;
\* executing JMP sets the PC to registers[base_r] and executing RET sets it to
\* registers[7], and neither changes a general register, the flag or memory.
C29_JmpRet ==
    [][ /\ (Tried /\ Bits(instruction, 15, 12) = 12) =>
             opcode = IF Bits(instruction, 8, 6) = 7
                      THEN [op |-> "RET"]
                      ELSE [op |-> "JMP", base_r |-> Bits(instruction, 8, 6)]
        /\ (ExecCall /\ opcode.op = "JMP") =>
             /\ registers' = [registers EXCEPT ![REG_IDX_PC] = registers[opcode.base_r]]
             /\ memory' = memory
             /\ fault' = "none"
        /\ (ExecCall /\ opcode.op = "RET") =>
             /\ registers' = [registers EXCEPT ![REG_IDX_PC] = registers[REG_RET]]
             /\ memory' = memory
             /\ fault' = "none"
      ]_vars

\* a JMP through register 3, encoded with its unused bits set, has moved the
\* PC to the value of register 3
C29_Witness ==
    /\ pos = "tested"
    /\ instruction = 53247 - 7 * 64 + 3 * 64
    /\ opcode = [op |-> "JMP", base_r |-> 3]
    /\ registers[REG_IDX_PC] = FillValue(3)
    /\ registers[3] = FillValue(3)

\* C30: every word whose top nibble is 0100 decodes to JSR with
\* offset = signExtend(bits 10..0, 11) when bit 11 is 1, and to JSRR with
\* base_r = bits 8..6 when bit 11 is 0.
C30_DecodeJsr ==
    (Tried /\ Bits(instruction, 15, 12) = 4) =>
        opcode = IF Bits(instruction, 11, 11) = 1
                 THEN [op |-> "JSR",
                       offset |-> TwosComplement(Bits(instruction, 10, 0), 11)]
                 ELSE [op |-> "JSRR", base_r |-> Bits(instruction, 8, 6)]

\* a JSRR through register 5, encoded with bits 2..0 set to 2, has been decoded
C30_Witness ==
    /\ pos = "execute"
    /\ instruction = 16706
    /\ opcode = [op |-> "JSRR", base_r |-> 5]

\* the mnemonic of the memory-access instructions, by top nibble
MemoryOpName(nibble) ==
    CASE nibble = 2 -> "LD"
      [] nibble = 10 -> "LDI"
      [] nibble = 14 -> "LEA"
      [] nibble = 3 -> "ST"
      [] nibble = 11 -> "STI"
      [] nibble = 6 -> "LDR"
      [] nibble = 7 -> "STR"

\* C31: the memory-access instructions decode by the fixed layout: LD, LDI,
\* ST, STI and LEA take their register from bits 11..9 and their offset as
\* signExtend(bits 8..0, 9); LDR and STR take their register from bits 11..9,
\* base_r from bits 8..6 and their offset as signExtend(bits 5..0, 6).
C31_DecodeMemoryAccess ==
    LET nibble == Bits(instruction, 15, 12)
        r      == Bits(instruction, 11, 9)
        off9   == TwosComplement(Bits(instruction, 8, 0), 9)
        off6   == TwosComplement(Bits(instruction, 5, 0), 6)
    IN  /\ (Tried /\ nibble \in {2, 10, 14}) =>
             opcode = [op |-> MemoryOpName(nibble), dr |-> r, offset |-> off9]
        /\ (Tried /\ nibble \in {3, 11}) =>
             opcode = [op |-> MemoryOpName(nibble), sr |-> r, offset |-> off9]
        /\ (Tried /\ nibble = 6) =>
             opcode = [op |-> "LDR", dr |-> r,
                       base_r |-> Bits(instruction, 8, 6), offset |-> off6]
        /\ (Tried /\ nibble = 7) =>
             opcode = [op |-> "STR", sr |-> r,
                       base_r |-> Bits(instruction, 8, 6), offset |-> off6]

\* LDR R4, R6, #-1, whose base field and offset field are both all ones in
\* part, has been decoded
C31_Witness ==
    /\ pos = "execute"
    /\ instruction = 27071
    /\ opcode = [op |-> "LDR", dr |-> 4, base_r |-> 6, offset |-> -1]

\* the trap a code names
TrapName(code) ==
    CASE code = 32 -> "Getc"
      [] code = 33 -> "Out"
      [] code = 34 -> "Puts"
      [] code = 35 -> "In"
      [] code = 36 -> "Putsp"
      [] code = 37 -> "Halt"

\* C32: every word whose top nibble is 1111 and whose low 8 bits are 0x20,
\* 0x21, 0x22, 0x23, 0x24 or 0x25 decodes to TRAP with code Getc, Out, Puts,
\* In, Putsp or Halt respectively, whatever its bits 11..8.
C32_DecodeTrap ==
    (Tried /\ Bits(instruction, 15, 12) = 15 /\ Bits(instruction, 7, 0) \in 32 .. 37) =>
        /\ fault # "UnknownTrapCode"
        /\ opcode = [op |-> "TRAP", trap_code |-> TrapName(Bits(instruction, 7, 0))]

\* the word xFA22, a Puts trap with bits 11..8 set to 1010, has been decoded
C32_Witness ==
    /\ pos = "execute"
    /\ instruction = 64034
    /\ opcode = [op |-> "TRAP", trap_code |-> "Puts"]

\* the bitwise AND of two 16-bit words, bit by bit
AndOfBits(a, b) ==
    LET upto[i \in 0 .. 16] ==
            IF i = 0 THEN 0
            ELSE upto[i - 1] + Bits(a, i - 1, i - 1) * Bits(b, i - 1, i - 1) * 2 ^ (i - 1)
    IN  upto[16]

\* C33: AND sets dr to the bitwise AND of registers[sr1] with registers[sr2]
\* in the register form and with the immediate sign-extended to 16 bits in
\* the immediate form, so a negative immediate keeps bits 15..5 of sr1; every
\* register of 0..7 other than dr keeps its value.
C33_AndResult ==
    [][ (ExecCall /\ opcode.op = "AND") =>
          LET operand == IF opcode.sr2.kind = "Reg"
                         THEN registers[opcode.sr2.v]
                         ELSE opcode.sr2.v % 65536
          IN  /\ fault' = "none"
              /\ registers'[opcode.dr] = AndOfBits(registers[opcode.sr1], operand)
              /\ (opcode.sr2.kind = "Immediate" /\ opcode.sr2.v < 0) =>
                    registers'[opcode.dr] \div 32 = registers[opcode.sr1] \div 32
              /\ \A i \in 0 .. 7 : i # opcode.dr => registers'[i] = registers[i]
      ]_vars

\* AND R1, R6, #-8 has cleared the low three bits of register 6's value and
\* kept the rest
C33_Witness ==
    /\ pos = "tested"
    /\ instruction = 21432
    /\ opcode = [op |-> "AND", dr |-> 1, sr1 |-> 6, sr2 |-> Immediate(-8)]
    /\ registers[6] = 13846
    /\ registers[1] = 13840

\* C34: LEA sets dr to the address (PC + offset) mod 65536 without reading
\* memory, and sets the flag from that address read as a signed 16-bit
\* number, so an address of 0x8000 or above gives Negative.
C34_LeaAddress ==
    [][ (pos = "execute" /\ opcode.op = "LEA") =>
          /\ ~AwaitsInput
          /\ fault' = "none"
          /\ registers'[opcode.dr] = PcOffsetAddress
          /\ FlagOf(registers') = SignClass(PcOffsetAddress)
          /\ \A i \in 0 .. 8 : i # opcode.dr => registers'[i] = registers[i]
          /\ memory' = memory
          /\ stdin' = stdin
      ]_vars

\* LEA R0, #0 executed with the PC at the keyboard status address: register 0
\* holds the address, the flag is Negative, the status cell was not polled
C34_Witness ==
    /\ pos = "tested"
    /\ opcode = [op |-> "LEA", dr |-> 0, offset |-> 0]
    /\ registers[REG_IDX_PC] = MR_KBSR
    /\ registers[0] = MR_KBSR
    /\ FlagOf(registers) = "Neg"
    /\ Mem(memory, MR_KBSR) = 0

\* C35: every word whose top nibble is 1000 decodes to RTI, and executing
\* RTI changes nothing: registers 0..7, the PC, the condition flag, all of
\* memory and the running flag keep their values.
C35_RtiNoOp ==
    [][ /\ (Tried /\ Bits(instruction, 15, 12) = 8) => opcode = [op |-> "RTI"]
        /\ (ExecCall /\ opcode.op = "RTI") =>
             /\ fault' = "none"
             /\ registers' = registers
             /\ memory' = memory
             /\ running' = running
      ]_vars

\* the word x8ABC, an RTI with operand bits set, has been decoded and executed
C35_Witness ==
    /\ pos = "tested"
    /\ instruction = 35516
    /\ opcode = [op |-> "RTI"]
    /\ registers[REG_IDX_PC] = PC_START_POS
    /\ registers[6] = FillValue(6)

\* C36: JSRR sets the PC to the value registers[base_r] held before the
\* instruction executed, for every base_r in 0..7, base_r = 7 included, where
\* the same instruction also overwrites the link register.
C36_JsrrBaseBefore ==
    [][ (ExecCall /\ opcode.op = "JSRR") =>
          /\ fault' = "none"
          /\ registers'[REG_IDX_PC] = registers[opcode.base_r]
      ]_vars

\* the word handed to the decoder is a TRAP word with an unmapped code
UnmappedTrapWord ==
    /\ Bits(instruction, 15, 12) = 15
    /\ Bits(instruction, 7, 0) \notin 32 .. 37

\* C37: the decoder covers all 16 opcode values: no 16-bit word takes the
\* unrecognized-opcode error branch, and the only words that do not decode to
\* an instruction are the TRAP words with an unmapped code.
C37_DecoderCoversOpcodes ==
    Tried =>
        /\ ~(pos = "tested" /\ opcode = NoOpcode)
        /\ opcode = NoOpcode <=> UnmappedTrapWord
        /\ opcode = NoOpcode => (pos = "panicked" /\ fault = "UnknownTrapCode")

\* the word xDABC, of the one opcode value the LC-3 leaves unused, has been
\* decoded to an instruction
C37_Witness ==
    /\ pos = "execute"
    /\ instruction = 55996
    /\ opcode = [op |-> "RESERVED"]

\* the register indices an opcode carries as operands
RegisterOperands(o) ==
    { o[f] : f \in DOMAIN o \cap {"dr", "sr", "sr1", "base_r"} }
    \cup (IF "sr2" \in DOMAIN o /\ o.sr2.kind = "Reg" THEN { o.sr2.v } ELSE {})

\* C38: every register index the decoder produces (dr, sr, sr1, sr2, base_r)
\* is in 0..7, so no instruction reaches the PC or condition-code slot through
\* a register operand and no register access is out of bounds.
C38_RegisterOperandsInRange ==
    /\ (Tried /\ opcode # NoOpcode) => RegisterOperands(opcode) \subseteq 0 .. 7
    /\ fault # "RegisterIndexOutOfBounds"

\* NOT R7, R7, whose register fields are both all ones, has been executed
C38_Witness ==
    /\ pos = "tested"
    /\ instruction = 40959
    /\ opcode = [op |-> "NOT", dr |-> 7, sr |-> 7]
    /\ registers[7] = 65535 - FillValue(7)
    /\ registers[REG_IDX_PC] = PC_START_POS

\* the instructions that do not define the flags
NoFlagSetting(o) ==
    \/ o.op \in {"BR", "JMP", "RET", "JSR", "JSRR", "ST", "STI", "STR", "RTI"}
    \/ o.op = "TRAP" /\ o.trap_code \in {"Out", "Puts", "Putsp", "Halt"}

\* C39: the instructions that do not define flags (BR, JMP, RET, JSR, JSRR,
\* ST, STI, STR, RTI and the Out, Puts, Putsp and Halt traps) leave the
\* condition flag unchanged; a flag-setting instruction leaves the flag set,
\* and once it is set no later step makes it Unset again.
C39_FlagKept ==
    [][ /\ (ExecCall /\ NoFlagSetting(opcode)) =>
             registers'[REG_IDX_COND] = registers[REG_IDX_COND]
        /\ (ExecReturns /\ FlagSetting(opcode)) => FlagOf(registers') # "None"
        /\ FlagOf(registers) # "None" => FlagOf(registers') # "None"
      ]_vars

\* after LEA set the flag to Positive, Putsp has executed and the flag is
\* still Positive
C39_Witness ==
    /\ pos = "fetch"
    /\ steps = 2
    /\ opcode = [op |-> "TRAP", trap_code |-> "Putsp"]
    /\ registers[0] = PC_START_POS
    /\ FlagOf(registers) = "Pos"

\* C40: for every image of at least 2 bytes, loading never reads a byte index
\* at or past the end of the input, also when the payload after the origin
\* has an odd number of bytes.
C40_LoadStaysInInput ==
    (Constructed /\ Len(data) >= 2) => fault # "IndexOutOfBounds"

====
